---- MODULE Spec2Model ----
(***************************************************************************)
(* DNSCrypt client (dnscrypt.py): the DNS wire codec (DnsHeader,           *)
(* DnsQuestion, DnsPacket, DnsPacketConverter), certificate discovery and  *)
(* selection (Certificate, find_certificates, get_public_key) and the      *)
(* query() exchange.                                                       *)
(*                                                                         *)
(* Byte strings are sequences of naturals 0..255; reader positions are the *)
(* 0-based offsets of StringIO.tell().  Text that the code handles as      *)
(* characters (nonce, magic) is a sequence of one-character strings.       *)
(***************************************************************************)
EXTENDS Integers, Sequences, FiniteSets, TLC

VARIABLES
    \* ---- wire codec ----
    cstep,      \* position of the codec caller: "build", "encoded", "decoded", "raw", "labels", "raised"
    packet,     \* the DnsPacket being built / encoded
    bin,        \* the byte string produced by toBinary, or handed to the reader
    ret,        \* what the last decoding call returned (or that it raised)
    reader      \* readLabels taken turn by turn: reader position and call stack

codecVars == <<cstep, packet, bin, ret, reader>>

VARIABLES
    \* ---- one invocation of query() ----
    pc,             \* position of the invocation
    args,           \* record_type and return_packet, as passed by the caller
    now,            \* the wall clock, in clock ticks
    certQuery,      \* the plaintext TXT query get_public_key sent, <<>> before
    certs,          \* bincerts = find_certificates(response)
    certificate,    \* <<c>>: the Certificate picked by max(), <<>> before
    provider_pk,    \* <<payload>>: what crypto_sign_open returned, <<>> before
    magic_query,    \* <<m>>: certificate.magic_query as returned, <<>> before
    keypair,        \* <<[pk, sk]>>: the local keypair, <<>> before
    nmkey,          \* <<k>>: the precomputed shared key, <<>> before
    nonce,          \* <<n>>: the client nonce, <<>> before
    sent,           \* <<datagram>>: the encrypted query as sent, <<>> before
    response,       \* <<datagram>>: the response received, <<>> before
    decoded_answer, \* <<bytes>>: what decode_message returned, <<>> before
    retval,         \* <<value>>: what query() returned, <<>> before
    err,            \* <<exception>>: what query() raised, <<>> if nothing
    trace           \* the steps taken so far, in order (history)

certVars == <<certQuery, certs, certificate, provider_pk, magic_query>>

exchVars == <<keypair, nmkey, nonce, sent, response, decoded_answer, retval>>

VARIABLES
    \* ---- several invocations of query() under way at once ----
    calls,          \* invocation -> its locals: position, keypair, nmkey, nonce, ...
    drawn           \* how many keypairs crypto_box_keypair has handed out

callVars == <<calls, drawn>>

sessVars == <<pc, args, now, certVars, exchVars, err, trace, callVars>>

vars == <<codecVars, sessVars>>

(***************************************************************************)
(* Bounds of the model.                                                    *)
(***************************************************************************)
MaxQuestions == 2       \* questions added to one packet
MaxBufLen == 7          \* length of the raw buffers handed to readLabels
MaxSerial == 2          \* certificate serials 0..MaxSerial
MaxCerts == 3           \* certificates found in one response
MaxMarkers == 2         \* markers in one response given byte by byte
MaxCount == 2           \* qdCount and anCount of the messages handed to fromBinary
MaxChunks == 3          \* pieces that follow the header in such a message
MaxCalls == 2           \* invocations of query() under way at once
MaxStepBufLen == 5      \* length of the buffers readLabels is followed through turn by turn
TicksPerSecond == 2     \* clock ticks per second (datetime counts microseconds)

(***************************************************************************)
(* Helpers: sequences and bit operations.                                  *)
(***************************************************************************)
Min(a, b) == IF a < b THEN a ELSE b

SeqsUpTo(S, n) == UNION {[1..k -> S] : k \in 0..n}

Range(s) == {s[i] : i \in 1..Len(s)}

RECURSIVE BitAnd(_, _)
BitAnd(a, b) ==
    IF a = 0 \/ b = 0 THEN 0
    ELSE (a % 2) * (b % 2) + 2 * BitAnd(a \div 2, b \div 2)

RECURSIVE Flatten(_)
Flatten(ss) == IF ss = <<>> THEN <<>> ELSE Head(ss) \o Flatten(Tail(ss))

Repeat(b, n) == [i \in 1..n |-> b]

(***************************************************************************)
(* struct.pack / struct.unpack, big-endian.                                *)
(***************************************************************************)
PackH(v) == <<v \div 256, v % 256>>

UnpackH(b, i) == b[i] * 256 + b[i + 1]

(***************************************************************************)
(* DnsHeader                                                               *)
(***************************************************************************)
DnsHeader ==
    [id |-> 4660, bits |-> 256, qdCount |-> 0, anCount |-> 0, nsCount |-> 0, arCount |-> 1]

HeaderToBinary(h) ==
    PackH(h.id) \o PackH(h.bits) \o PackH(h.qdCount) \o PackH(h.anCount)
        \o PackH(h.nsCount) \o PackH(h.arCount)

(***************************************************************************)
(* DnsQuestion                                                             *)
(***************************************************************************)
DnsQuestion == [labels |-> <<>>, qtype |-> 1, qclass |-> 1]

MaxLabelLen == 63

\* the assert of DnsQuestion.toBinary
LabelsFit(q) == \A i \in 1..Len(q.labels) : Len(q.labels[i]) <= MaxLabelLen

LabelToBinary(label) == <<Len(label)>> \o label

\* a toBinary that forgets the labels terminator
QuestionToBinaryNoTerminator(q) ==
    Flatten([i \in 1..Len(q.labels) |-> LabelToBinary(q.labels[i])])
        \o PackH(q.qtype) \o PackH(q.qclass)

QuestionToBinary(q) ==
    Flatten([i \in 1..Len(q.labels) |-> LabelToBinary(q.labels[i])])
        \o <<0>> \o PackH(q.qtype) \o PackH(q.qclass)

(***************************************************************************)
(* DnsPacket                                                               *)
(***************************************************************************)
DnsPacket(header) == [header |-> header, questions |-> <<>>, answers |-> <<>>]

addQuestion(p, question) ==
    [p EXCEPT !.header.qdCount = @ + 1, !.questions = Append(@, question)]

PacketFits(p) == \A i \in 1..Len(p.questions) : LabelsFit(p.questions[i])

PacketToBinary(p) ==
    HeaderToBinary(p.header)
        \o Flatten([i \in 1..Len(p.questions) |-> QuestionToBinary(p.questions[i])])

(***************************************************************************)
(* BinReader: read(n) returns at most n bytes and never fails; unpack      *)
(* raises struct.error when fewer bytes than the format's size were read.  *)
(* A call either returns a value and leaves the reader at pos, or raises.  *)
(* A helper that receives the outcome of an earlier call passes an         *)
(* exception on unchanged.                                                 *)
(***************************************************************************)
Raised(exc, pos) == [ok |-> FALSE, exc |-> exc, pos |-> pos]

Returned(val, pos) == [ok |-> TRUE, val |-> val, pos |-> pos]

read(buf, pos, n) ==
    Returned(SubSeq(buf, pos + 1, Min(pos + n, Len(buf))), Min(pos + n, Len(buf)))

\* struct.unpack(fmt, bin) on the bytes read
structUnpack(r, size) == IF Len(r.val) = size THEN r ELSE Raised("struct.error", r.pos)

unpack(buf, pos, size) == structUnpack(read(buf, pos, size), size)

(***************************************************************************)
(* DnsPacketConverter.readLabels                                           *)
(***************************************************************************)
compressionMask == 192

RECURSIVE readLabelsLoop(_, _, _)

\* a readLabels that forgets reader.seek(oldPosition)
ReturnWithoutSeek(oldPosition, result) == result

\* reader.seek(oldPosition); return result
SeekAndReturn(oldPosition, result) ==
    IF ~result.ok THEN result ELSE Returned(result.val, oldPosition)

\* a readLabels that seeks to the offset before it recurses
recursionAtOffset(offset, oldPosition) == offset

\* result = self.readLabels(reader): the recursion reads on where the reader
\* stands, right after the pointer; offset is not used
recursionStart(offset, oldPosition) == oldPosition

\* the compression branch, entered with the pointer's second byte unpacked into u2
readPointer(buf, length, u2) ==
    IF ~u2.ok THEN u2
    ELSE LET byte1 == BitAnd(length, 255 - compressionMask)
             offset == byte1 * 256 + u2.val[1]          \* computed, never used
             oldPosition == u2.pos
         IN  \* self.readLabels(reader) reads on from the reader's position
             SeekAndReturn(oldPosition, readLabelsLoop(buf, oldPosition, <<>>))

\* label = reader.read(length); labels.append(label); next turn of the loop
readLabel(buf, labels, r) == readLabelsLoop(buf, r.pos, Append(labels, r.val))

\* one turn of the while loop, entered with the length byte unpacked into u
readLabelsTurn(buf, labels, u) ==
    IF ~u.ok THEN u
    ELSE LET length == u.val[1]
         IN  IF length = 0 THEN Returned(labels, u.pos)
             ELSE IF BitAnd(length, compressionMask) # 0
                  THEN readPointer(buf, length, unpack(buf, u.pos, 1))
                  ELSE readLabel(buf, labels, read(buf, u.pos, length))

readLabelsLoop(buf, pos, labels) == readLabelsTurn(buf, labels, unpack(buf, pos, 1))

readLabels(buf, pos) == readLabelsLoop(buf, pos, <<>>)

(***************************************************************************)
(* DnsPacketConverter.readQuestion / readAnswer / fromBinary               *)
(***************************************************************************)
\* (question.qtype, question.qclass) = reader.unpack('!HH'); return question
readQuestionFields(labels, u) ==
    IF ~u.ok THEN u
    ELSE Returned([labels |-> labels, qtype |-> UnpackH(u.val, 1),
                   qclass |-> UnpackH(u.val, 3)], u.pos)

readQuestionAfterLabels(buf, l) ==
    IF ~l.ok THEN l ELSE readQuestionFields(l.val, unpack(buf, l.pos, 4))

readQuestion(buf, pos) == readQuestionAfterLabels(buf, readLabels(buf, pos))

\* (type, rrclass, ttl, rdlength) = reader.unpack('!HHiH');
\* answer.rdata = reader.read(rdlength); return answer.rdata
readAnswerFields(buf, u) ==
    IF ~u.ok THEN u
    ELSE LET rdlength == UnpackH(u.val, 9)
         IN  read(buf, u.pos, rdlength)

readAnswerAfterLabels(buf, l) ==
    IF ~l.ok THEN l ELSE readAnswerFields(buf, unpack(buf, l.pos, 10))

readAnswer(buf, pos) == readAnswerAfterLabels(buf, readLabels(buf, pos))

\* DnsHeader.fromBinary: struct.unpack('!HHHHHH', bin.read(12))
HeaderUnpack(r) ==
    IF ~r.ok THEN r
    ELSE Returned([id |-> UnpackH(r.val, 1), bits |-> UnpackH(r.val, 3),
                   qdCount |-> UnpackH(r.val, 5), anCount |-> UnpackH(r.val, 7),
                   nsCount |-> UnpackH(r.val, 9), arCount |-> UnpackH(r.val, 11)],
                  r.pos)

HeaderFromBinary(buf, pos) == HeaderUnpack(unpack(buf, pos, 12))

RECURSIVE readQuestions(_, _, _, _)

appendQuestion(buf, n, acc, q) ==
    IF ~q.ok THEN q ELSE readQuestions(buf, q.pos, n - 1, Append(acc, q.val))

\* for qi in range(header.qdCount): packet.questions.append(self.readQuestion(reader))
readQuestions(buf, pos, n, acc) ==
    IF n = 0 THEN Returned(acc, pos) ELSE appendQuestion(buf, n, acc, readQuestion(buf, pos))

RECURSIVE readAnswers(_, _, _, _)

appendAnswer(buf, n, acc, a) ==
    IF ~a.ok THEN a ELSE readAnswers(buf, a.pos, n - 1, Append(acc, a.val))

\* a loop over range(1, header.anCount): one answer short
readAnswersFromOne(buf, pos, n, acc) ==
    IF n <= 1 THEN Returned(acc, pos) ELSE appendAnswer(buf, n, acc, readAnswer(buf, pos))

\* for ai in range(header.anCount): packet.answers.append(self.readAnswer(reader))
readAnswers(buf, pos, n, acc) ==
    IF n = 0 THEN Returned(acc, pos) ELSE appendAnswer(buf, n, acc, readAnswer(buf, pos))

packetWithAnswers(header, questions, as) ==
    IF ~as.ok THEN as
    ELSE Returned([header |-> header, questions |-> questions, answers |-> as.val], as.pos)

packetWithQuestions(buf, header, qs) ==
    IF ~qs.ok THEN qs
    ELSE packetWithAnswers(header, qs.val, readAnswers(buf, qs.pos, header.anCount, <<>>))

packetWithHeader(buf, h) ==
    IF ~h.ok THEN h
    ELSE packetWithQuestions(buf, h.val, readQuestions(buf, h.pos, h.val.qdCount, <<>>))

fromBinary(buf) == packetWithHeader(buf, HeaderFromBinary(buf, 0))

(***************************************************************************)
(* Exceptions and results of calls.                                        *)
(***************************************************************************)
DnscryptException(msg) == [type |-> "DnscryptException", msg |-> msg]

CertificateExpired == DnscryptException("Certificate expired.")

Ok(v) == [ok |-> TRUE, val |-> v]

Fail(type, msg) == [ok |-> FALSE, exc |-> [type |-> type, msg |-> msg]]

(***************************************************************************)
(* Time.  Certificates carry whole seconds; datetime.now() also carries    *)
(* the fraction of the second.  A datetime is a number of clock ticks.     *)
(***************************************************************************)
Epoch == 268435456 - 1                  \* 0xfffffff, the last second of 7 hex digits

\* the clock readings: from the second before Epoch to three seconds after it
Clock == (Epoch - 1) * TicksPerSecond .. (Epoch + 4) * TicksPerSecond - 1

\* datetime.datetime.fromtimestamp(seconds)
fromtimestamp(seconds) == seconds * TicksPerSecond

\* int(time.time())
UnixTime(t) == t \div TicksPerSecond

(***************************************************************************)
(* Certificate.  A bincert is the 116-byte blob that follows a certificate *)
(* marker, given by its fields: who signed it, the public key, the magic   *)
(* query, the serial and the two timestamps.                               *)
(***************************************************************************)
Certificate(bincert) ==
    [bincert |-> bincert,
     magic_query |-> bincert.magic_query,
     serial |-> bincert.serial,
     cert_start |-> fromtimestamp(bincert.valid_from),
     cert_end |-> fromtimestamp(bincert.valid_until)]

\* an expired() that lets the certificate lapse one tick early
ExpiredExclusiveEnd(cert, t) == t < cert.cert_start \/ t >= cert.cert_end

\* Certificate.expired(), with datetime.now() = t
Expired(cert, t) == t < cert.cert_start \/ t > cert.cert_end

\* find_certificates on a response given by the blobs that follow its
\* markers, each blob being complete
markedBlobs(resp) == resp

(***************************************************************************)
(* The same on the wire: the response is a byte string, the marker eight   *)
(* bytes, and a blob the bytes that follow a marker.                       *)
(***************************************************************************)
CertMarker == <<68, 78, 83, 67, 0, 1, 0, 0>>        \* 'DNSC\x00\x01\x00\x00'

BlobLen == 116

\* response[i:j] of a Python string
Slice(str, i, j) == SubSeq(str, i + 1, Min(j, Len(str)))

\* m.end() of the matches of re.finditer: the marker cannot overlap itself,
\* so every occurrence is a match
MatchEnds(resp) ==
    {e \in 8..Len(resp) : SubSeq(resp, e - 7, e) = CertMarker}

RECURSIVE Ascending(_)
Ascending(S) ==
    IF S = {} THEN <<>>
    ELSE <<CHOOSE m \in S : \A x \in S : m <= x>>
         \o Ascending(S \ {CHOOSE m \in S : \A x \in S : m <= x})

\* [resp[m.end():m.end() + 116] for m in re.finditer(marker, resp)]
find_certificates(resp) ==
    [k \in 1..Cardinality(MatchEnds(resp)) |->
        Slice(resp, Ascending(MatchEnds(resp))[k], Ascending(MatchEnds(resp))[k] + BlobLen)]

\* int(s.encode('hex'), 16) of a non-empty byte string
RECURSIVE BytesToInt(_)
BytesToInt(b) ==
    IF b = <<>> THEN 0 ELSE BytesToInt(SubSeq(b, 1, Len(b) - 1)) * 256 + b[Len(b)]

\* Certificate(bincert) for a blob of bytes: int('', 16) raises ValueError
CertificateOfBytes(bincert) ==
    IF Len(bincert) <= 112 THEN Fail("ValueError", "")
    ELSE Ok([bincert |-> bincert,
             magic_query |-> Slice(bincert, 96, 104),
             serial |-> BytesToInt(Slice(bincert, 104, 108)),
             cert_start |-> fromtimestamp(BytesToInt(Slice(bincert, 108, 112))),
             cert_end |-> fromtimestamp(BytesToInt(Slice(bincert, 112, Len(bincert))))])

\* key=lambda x: x.serial and not x.expired()
\* (0 when the serial is 0, else the truth value of "not expired": True = 1)
SelectionKey(cert, t) ==
    IF cert.serial = 0 THEN 0 ELSE IF ~Expired(cert, t) THEN 1 ELSE 0

\* max(): an item replaces the running maximum only when its key is
\* strictly greater, so of several items with the greatest key the first wins
RECURSIVE MaxFrom(_, _, _, _)
MaxFrom(certificates, t, best, i) ==
    IF i > Len(certificates) THEN certificates[best]
    ELSE MaxFrom(certificates, t,
                 IF SelectionKey(certificates[i], t) > SelectionKey(certificates[best], t)
                 THEN i ELSE best,
                 i + 1)

\* certificates = [Certificate(b) for b in bincerts]; max(certificates, key=...)
MaxCertificate(bincerts, t) ==
    MaxFrom([i \in 1..Len(bincerts) |-> Certificate(bincerts[i])], t, 1, 2)

(***************************************************************************)
(* The cryptographic primitives (slownacl, nacl, pysodium, ed25519py),     *)
(* taken by their contract.  A key is a name; a signed blob records who    *)
(* signed it; a box records what was sealed, under which nonce and key.    *)
(***************************************************************************)
KeyLen == 32

NonceLen == 12 + 12         \* the client's half and the server's half

\* crypto_sign_open that hands out the payload without checking the signature
crypto_sign_open_unchecked(bincert, key) ==
    Ok([pk |-> bincert.pk, magic_query |-> bincert.magic_query, serial |-> bincert.serial,
        valid_from |-> bincert.valid_from, valid_until |-> bincert.valid_until])

\* crypto_sign_open(signed_blob, public_key): the payload, if key signed it
crypto_sign_open(bincert, key) ==
    IF bincert.signed_by = key
    THEN Ok([pk |-> bincert.pk, magic_query |-> bincert.magic_query, serial |-> bincert.serial,
             valid_from |-> bincert.valid_from, valid_until |-> bincert.valid_until])
    ELSE Fail("BadSignature", "")

\* crypto_box_keypair(): the n-th keypair the generator hands out
crypto_box_keypair(n) == [pk |-> <<"pk", n>>, sk |-> <<"sk", n>>]

\* crypto_box_beforenm(pk, sk): fails on a public key that is not a point
crypto_box_beforenm(pk, sk) ==
    IF pk.len # KeyLen THEN Fail("ValueError", "") ELSE Ok([pk |-> pk, sk |-> sk])

\* crypto_box_afternm(message, nonce, k)
crypto_box_afternm(message, nonce24, k) ==
    IF Len(nonce24) # NonceLen THEN Fail("ValueError", "")
    ELSE Ok([msg |-> message, nonce |-> nonce24, key |-> k])

\* crypto_box_open_afternm(ciphertext, nonce, k): the plaintext, if the box
\* was sealed under this nonce and this key
crypto_box_open_afternm(c, nonce24, k) ==
    IF Len(nonce24) = NonceLen /\ c # <<>> /\ c[1].nonce = nonce24 /\ c[1].key = k
    THEN Ok(c[1].msg)
    ELSE Fail("ValueError", "")

(***************************************************************************)
(* The functions of the session.                                           *)
(***************************************************************************)
\* get_public_key returning the payload without opening the signature
open_certificate_unverified(cert, provider_key) ==
    crypto_sign_open_unchecked(cert.bincert, provider_key)

\* return crypto_sign_open(certificate.bincert, provider_key.decode('hex')), ...
open_certificate(cert, provider_key) == crypto_sign_open(cert.bincert, provider_key)

\* a generate_keypair that hands out one and the same keypair at every call
generate_static_keypair(n) == crypto_box_keypair(0)

\* return crypto_box_keypair(): the n-th call of the generator
generate_keypair(n) == crypto_box_keypair(n)

\* provider_pk[:32]
PublicKeyOf(payload) == payload.pk

create_nmkey(pk, sk) ==
    IF crypto_box_beforenm(pk, sk).ok THEN crypto_box_beforenm(pk, sk)
    ELSE Fail("DnscryptException", "Invalid public key.")

ZeroPad == [i \in 1..12 |-> "\\x00"]

encode_message(message, n, k) ==
    IF crypto_box_afternm(message, n \o ZeroPad, k).ok
    THEN crypto_box_afternm(message, n \o ZeroPad, k)
    ELSE Fail("DnscryptException", "Message encoding error.")

\* a decode_message that hands out whatever the box holds, opened or not
decode_message_unauthenticated(answer, n, k) ==
    IF answer # <<>> THEN Ok(answer[1].msg) ELSE Ok(<<>>)

decode_message(answer, n, k) ==
    IF crypto_box_open_afternm(answer, n, k).ok
    THEN crypto_box_open_afternm(answer, n, k)
    ELSE Fail("DnscryptException", "Message decoding error.")

HexDigits ==
    <<"0", "1", "2", "3", "4", "5", "6", "7", "8", "9", "a", "b", "c", "d", "e", "f">>

\* "%x" % n
RECURSIVE Hex(_)
Hex(n) == IF n < 16 THEN <<HexDigits[n + 1]>>
          ELSE Hex(n \div 16) \o <<HexDigits[(n % 16) + 1]>>

\* "%x" % int(time.time()) + os.urandom(4).encode('hex')[4:]
MakeNonce(t, random) == Hex(UnixTime(t)) \o random

ResponseMagic == <<"r", "6", "f", "n", "v", "W", "j", "8">>

\* a magic check that lets every response through
MagicAny(resp_magic_query) == TRUE

\* not (resp_magic_query != 'r6fnvWj8')
MagicOk(resp_magic_query) == resp_magic_query = ResponseMagic

\* a nonce check that lets every response through
NonceAny(resp_client_nonce, n) == TRUE

\* not (resp_client_nonce != nonce)
NonceOk(resp_client_nonce, n) == resp_client_nonce = n

(***************************************************************************)
(* What one invocation of query() is given and what the network may hand   *)
(* it.                                                                     *)
(***************************************************************************)
ProviderKey == "provider_key"           \* the caller's provider_key

OtherKey == "other_key"                 \* some other signing key

ResolverPk == [name |-> "resolver_pk", len |-> KeyLen]

ShortPk == [name |-> "short_pk", len |-> KeyLen - 1]

CertMagic == <<"q", "6", "f", "n", "v", "W", "j", "8">>

Windows == {[from |-> Epoch, until |-> Epoch + 1],
            [from |-> Epoch + 1, until |-> Epoch + 2]}

Bincert(signer, pk, serial, from, until) ==
    [signed_by |-> signer, pk |-> pk, magic_query |-> CertMagic,
     serial |-> serial, valid_from |-> from, valid_until |-> until]

\* the certificates offered to the selection on its own
SelectBlobs ==
    {Bincert(ProviderKey, ResolverPk, n, w.from, w.until) : n \in 0..MaxSerial, w \in Windows}

\* the certificates a certificate response may carry in a session
SessionBlobs ==
    {Bincert(ProviderKey, ResolverPk, 2, Epoch + 1, Epoch + 2),
     Bincert(ProviderKey, ResolverPk, 1, Epoch, Epoch + 1),
     Bincert(OtherKey, ResolverPk, 2, Epoch + 1, Epoch + 2),
     Bincert(ProviderKey, ShortPk, 1, Epoch + 1, Epoch + 2)}

ProviderUrlLabels == << <<50>>, <<97>> >>       \* provider_url.split('.')

UrlLabels == << <<97>>, <<98>> >>               \* url.split('.')

RecordTypes == {1, 48}

RandomTails == {<<"0", "0", "0", "0">>, <<"a", "b", "c", "d">>}

OtherNonce == [i \in 1..12 |-> "z"]

ServerNonce == [i \in 1..12 |-> "s"]

WrongKey == [pk |-> ResolverPk, sk |-> <<"sk", 0>>]

\* a reply with one question and one answer whose name is a pointer
ValidReply ==
    HeaderToBinary([DnsHeader EXCEPT !.bits = 33152, !.qdCount = 1, !.anCount = 1,
                                     !.arCount = 0])
    \o QuestionToBinary([DnsQuestion EXCEPT !.labels = UrlLabels])
    \o <<192, 12, 0, 1, 0, 1, 0, 0, 0, 60, 0, 4, 10, 0, 0, 1>>

MalformedReply == <<18, 52, 1>>

ResponseHeads(n) ==
    {m \o e \o ServerNonce : m \in {ResponseMagic, CertMagic}, e \in {n, OtherNonce}}
    \cup {ResponseMagic \o SubSeq(n, 1, Len(n) - 1)}

ResponseAnswers(head, k) ==
    {<<>>} \cup
    {<<[msg |-> m, nonce |-> n24, key |-> key]>> :
        m \in {ValidReply, MalformedReply},
        n24 \in {Slice(head, 8, 32)},
        key \in {k, WrongKey}}

\* the datagrams recvfrom may return for the encrypted query
Responses(n, k) ==
    UNION {{[head |-> h, answer |-> a] : a \in ResponseAnswers(h, k)} : h \in ResponseHeads(n)}

\* response[:8], response[8:20], response[20:32], response[32:]
resp_magic_query(resp) == Slice(resp.head, 0, 8)

resp_client_nonce(resp) == Slice(resp.head, 8, 20)

resp_server_nonce(resp) == Slice(resp.head, 20, 32)

resp_answer(resp) == IF Len(resp.head) < 32 THEN <<>> ELSE resp.answer

\* the plaintext DNS message query() seals
QueryMessage(record_type) ==
    IF record_type = 48
    THEN <<18, 52, 1, 0, 0, 1, 0, 0, 0, 0, 0, 1>>
         \o Flatten([i \in 1..Len(UrlLabels) |-> <<Len(UrlLabels[i])>> \o UrlLabels[i]])
         \o <<0, 0, 48, 0, 1, 0, 0, 41, 5, 0, 0, 0, 128, 0, 0, 0, 128>>
    ELSE PacketToBinary(addQuestion(DnsPacket(DnsHeader),
                                    [DnsQuestion EXCEPT !.labels = UrlLabels,
                                                        !.qtype = record_type]))
         \o <<0, 0, 41, 4, 228>> \o Repeat(0, 6) \o <<128>>

\* the TXT query get_public_key sends
CertQueryMessage ==
    PacketToBinary(addQuestion(DnsPacket(DnsHeader),
                               [DnsQuestion EXCEPT !.labels = ProviderUrlLabels,
                                                   !.qtype = 16]))

\* try: get_public_key(...)  except DnscryptException: raise
\* DnscryptException("Certificate expired.")
QueryExcept(exc) ==
    IF exc.type = "DnscryptException" THEN DnscryptException("Certificate expired.")
    ELSE exc

(***************************************************************************)
(* The codec on its own: a caller builds a packet with addQuestion,        *)
(* encodes it with toBinary and decodes the bytes with fromBinary; or a    *)
(* raw buffer is handed to readLabels at some reader position.             *)
(***************************************************************************)
LabelA == <<97>>
LabelRaw == <<192, 0>>                      \* label content is opaque to the codec
Label63 == Repeat(0, MaxLabelLen)
Label64 == Repeat(0, MaxLabelLen + 1)       \* trips the assert of toBinary
EmptyLabel == <<>>                          \* what "a..b".split('.') yields

NamePool ==
    {<<>>, <<LabelA>>, <<LabelRaw, LabelA>>, <<Label63>>, <<LabelA, EmptyLabel, LabelA>>,
     <<Label64>>}

QTypes == {1, 16}

HeaderIds == {4660, 65535}

AnswerPool == {<<>>, << <<10, 0, 0, 1>> >>}  \* rdata strings, as fromBinary stores them

RawBytes == {0, 1, 97, 192}

NoRet == [start |-> 0, out |-> Raised("none", 0)]

\* no call of readLabels is under way
NoReader == [pos |-> 0, stack |-> <<>>, result |-> <<>>, maxDepth |-> 0]

CodecIdle == cstep = "idle" /\ packet = DnsPacket(DnsHeader) /\ bin = <<>> /\ ret = NoRet /\ reader = NoReader

\* no invocation of query() has set anything yet
SessionFresh ==
    /\ certQuery = <<>> /\ certs = <<>> /\ certificate = <<>>
    /\ provider_pk = <<>> /\ magic_query = <<>>
    /\ keypair = <<>> /\ nmkey = <<>> /\ nonce = <<>> /\ sent = <<>>
    /\ response = <<>> /\ decoded_answer = <<>> /\ retval = <<>>
    /\ err = <<>> /\ trace = <<>>

\* no invocation is followed side by side with others
NoCalls == calls = <<>> /\ drawn = 0

DefaultArgs == [record_type |-> 1, return_packet |-> TRUE]

SessionIdle ==
    /\ pc = "idle" /\ args = DefaultArgs /\ now = (Epoch - 1) * TicksPerSecond
    /\ SessionFresh /\ NoCalls

InitCodec ==
    /\ SessionIdle
    /\ ret = NoRet /\ reader = NoReader
    /\ \/ /\ cstep = "build"
          /\ bin = <<>>
          /\ \E i \in HeaderIds, a \in AnswerPool :
                packet = [DnsPacket([DnsHeader EXCEPT !.id = i, !.anCount = Len(a)])
                            EXCEPT !.answers = a]
       \/ /\ cstep = "raw"
          /\ packet = DnsPacket(DnsHeader)
          /\ bin \in SeqsUpTo(RawBytes, MaxBufLen)

AddQuestion ==
    /\ cstep = "build"
    /\ Len(packet.questions) < MaxQuestions
    /\ \E n \in NamePool, t \in QTypes :
          packet' = addQuestion(packet, [DnsQuestion EXCEPT !.labels = n, !.qtype = t])
    /\ UNCHANGED <<cstep, bin, ret, reader>>
    /\ UNCHANGED sessVars

ToBinary ==
    /\ cstep = "build"
    /\ IF PacketFits(packet)
       THEN cstep' = "encoded" /\ bin' = PacketToBinary(packet)
       ELSE cstep' = "raised" /\ bin' = bin          \* AssertionError
    /\ UNCHANGED <<packet, ret, reader>>
    /\ UNCHANGED sessVars

FromBinary ==
    /\ cstep = "encoded"
    /\ cstep' = "decoded"
    /\ ret' = [start |-> 0, out |-> fromBinary(bin)]
    /\ UNCHANGED <<packet, bin, reader>>
    /\ UNCHANGED sessVars

ReadLabels ==
    /\ cstep = "raw"
    /\ cstep' = "labels"
    /\ \E p \in 0..Len(bin) : ret' = [start |-> p, out |-> readLabels(bin, p)]
    /\ UNCHANGED <<packet, bin, reader>>
    /\ UNCHANGED sessVars

NextCodec == AddQuestion \/ ToBinary \/ FromBinary \/ ReadLabels

SpecCodec == InitCodec /\ [][NextCodec]_vars

(***************************************************************************)
(* One invocation of query(url, ip, port, provider_key, provider_url,      *)
(* record_type, return_packet), step by step.                              *)
(***************************************************************************)
Init ==
    /\ CodecIdle
    /\ pc = "Init"
    /\ args \in [record_type : RecordTypes, return_packet : BOOLEAN]
    /\ now \in Clock
    /\ SessionFresh /\ NoCalls

\* an exception leaves query()
Raise(exc) == pc' = "Failed" /\ err' = <<exc>>

\* the step is recorded and nothing else of the invocation changes
Step(name) == trace' = Append(trace, name) /\ UNCHANGED <<args, now, codecVars, callVars>>

\* get_public_key builds the TXT query and sends it
SendCertQuery ==
    /\ pc = "Init"
    /\ certQuery' = <<CertQueryMessage>>
    /\ pc' = "CertFetchSent"
    /\ trace' = Append(trace, "send_cert_query")
    /\ UNCHANGED <<args, now, codecVars, err, exchVars, callVars>>
    /\ UNCHANGED <<certs, certificate, provider_pk, magic_query>>

\* time passes while recvfrom blocks
Tick ==
    /\ pc = "CertFetchSent"
    /\ now + 1 \in Clock
    /\ now' = now + 1
    /\ UNCHANGED <<pc, args, codecVars, certVars, exchVars, err, trace, callVars>>

\* recvfrom returns the certificate response; the certificates are extracted
RecvCertResponse ==
    /\ pc = "CertFetchSent"
    /\ \E resp \in SeqsUpTo(SessionBlobs, MaxCerts) : certs' = markedBlobs(resp)
    /\ IF certs' = <<>>
       THEN Raise(QueryExcept(DnscryptException("No certificate received.")))
       ELSE pc' = "CertReceived" /\ err' = err
    /\ Step("recv_cert_response")
    /\ UNCHANGED <<certQuery, certificate, provider_pk, magic_query, exchVars>>

\* the certificates are parsed, one is picked and checked for expiry
SelectCertificate ==
    /\ pc = "CertReceived"
    /\ certificate' = <<MaxCertificate(certs, now)>>
    /\ IF Expired(MaxCertificate(certs, now), now)
       THEN Raise(QueryExcept(DnscryptException("Certificate expired.")))
       ELSE pc' = "CertSelected" /\ err' = err
    /\ Step("select_certificate")
    /\ UNCHANGED <<certQuery, certs, provider_pk, magic_query, exchVars>>

\* the signature of the picked certificate is opened with the provider key
VerifyCertificate ==
    /\ pc = "CertSelected"
    /\ IF open_certificate(certificate[1], ProviderKey).ok
       THEN /\ provider_pk' = <<open_certificate(certificate[1], ProviderKey).val>>
            /\ magic_query' = <<certificate[1].magic_query>>
            /\ pc' = "KeyRecovered" /\ err' = err
       ELSE /\ Raise(QueryExcept(open_certificate(certificate[1], ProviderKey).exc))
            /\ UNCHANGED <<provider_pk, magic_query>>
    /\ Step("crypto_sign_open")
    /\ UNCHANGED <<certQuery, certs, certificate, exchVars>>

\* (pk, sk) = generate_keypair()
GenerateKeypair ==
    /\ pc = "KeyRecovered"
    /\ keypair' = <<generate_keypair(1)>>
    /\ pc' = "KeypairGenerated"
    /\ Step("generate_keypair")
    /\ UNCHANGED <<certVars, nmkey, nonce, sent, response, decoded_answer, retval, err>>

\* nmkey = create_nmkey(provider_pk[:32], sk)
CreateNmkey ==
    /\ pc = "KeypairGenerated"
    /\ IF create_nmkey(PublicKeyOf(provider_pk[1]), keypair[1].sk).ok
       THEN /\ nmkey' = <<create_nmkey(PublicKeyOf(provider_pk[1]), keypair[1].sk).val>>
            /\ pc' = "NmkeyReady" /\ err' = err
       ELSE /\ Raise(create_nmkey(PublicKeyOf(provider_pk[1]), keypair[1].sk).exc)
            /\ nmkey' = nmkey
    /\ Step("create_nmkey")
    /\ UNCHANGED <<certVars, keypair, nonce, sent, response, decoded_answer, retval>>

\* the message is built, the nonce drawn, the message sealed and sent
SendQuery ==
    /\ pc = "NmkeyReady"
    /\ \E random \in RandomTails : nonce' = <<MakeNonce(now, random)>>
    /\ IF encode_message(QueryMessage(args.record_type), nonce'[1], nmkey[1]).ok
       THEN /\ sent' = <<[magic_query |-> magic_query[1], pk |-> keypair[1].pk,
                          nonce |-> nonce'[1],
                          encoded_message |->
                              encode_message(QueryMessage(args.record_type),
                                             nonce'[1], nmkey[1]).val]>>
            /\ pc' = "QuerySent" /\ err' = err
       ELSE /\ Raise(encode_message(QueryMessage(args.record_type), nonce'[1], nmkey[1]).exc)
            /\ sent' = sent
    /\ Step("send_query")
    /\ UNCHANGED <<certVars, keypair, nmkey, response, decoded_answer, retval>>

\* recvfrom returns the response to the encrypted query
RecvResponse ==
    /\ pc = "QuerySent"
    /\ \E resp \in Responses(nonce[1], nmkey[1]) : response' = <<resp>>
    /\ pc' = "ResponseReceived"
    /\ Step("recv_response")
    /\ UNCHANGED <<certVars, keypair, nmkey, nonce, sent, decoded_answer, retval, err>>

\* if resp_magic_query != 'r6fnvWj8': raise
CheckMagic ==
    /\ pc = "ResponseReceived"
    /\ IF MagicOk(resp_magic_query(response[1]))
       THEN pc' = "MagicChecked" /\ err' = err
       ELSE Raise(DnscryptException("Invalid magic query received."))
    /\ Step("check_magic")
    /\ UNCHANGED <<certVars, exchVars>>

\* if resp_client_nonce != nonce: raise
CheckNonce ==
    /\ pc = "MagicChecked"
    /\ IF NonceOk(resp_client_nonce(response[1]), nonce[1])
       THEN pc' = "NonceChecked" /\ err' = err
       ELSE Raise(DnscryptException("Invalid nonce received."))
    /\ Step("check_nonce")
    /\ UNCHANGED <<certVars, exchVars>>

\* decoded_answer = decode_message(resp_answer, resp_client_nonce + resp_server_nonce, nmkey)
openedAnswer ==
    decode_message(resp_answer(response[1]),
                   resp_client_nonce(response[1]) \o resp_server_nonce(response[1]),
                   nmkey[1])

DecodeMessage ==
    /\ pc = "NonceChecked"
    /\ IF openedAnswer.ok
       THEN decoded_answer' = <<openedAnswer.val>> /\ pc' = "Decoded" /\ err' = err
       ELSE Raise(openedAnswer.exc) /\ decoded_answer' = decoded_answer
    /\ Step("decode_message")
    /\ UNCHANGED <<certVars, keypair, nmkey, nonce, sent, response, retval>>

\* return decoded_answer, or the packet converted from it
Return ==
    /\ pc = "Decoded"
    /\ IF ~args.return_packet
       THEN retval' = <<decoded_answer[1]>> /\ pc' = "Done" /\ err' = err
       ELSE IF fromBinary(decoded_answer[1]).ok
            THEN retval' = <<fromBinary(decoded_answer[1]).val>> /\ pc' = "Done" /\ err' = err
            ELSE Raise([type |-> fromBinary(decoded_answer[1]).exc, msg |-> ""])
                 /\ retval' = retval
    /\ Step("return")
    /\ UNCHANGED <<certVars, keypair, nmkey, nonce, sent, response, decoded_answer>>

Next ==
    \/ SendCertQuery \/ Tick \/ RecvCertResponse \/ SelectCertificate
    \/ VerifyCertificate \/ GenerateKeypair \/ CreateNmkey \/ SendQuery
    \/ RecvResponse \/ CheckMagic \/ CheckNonce \/ DecodeMessage \/ Return

Spec == Init /\ [][Next]_vars


(***************************************************************************)
(* Properties of the codec.                                                *)
(***************************************************************************)
RECURSIVE NameLen(_)
NameLen(labels) ==
    IF labels = <<>> THEN 1 ELSE 1 + Len(Head(labels)) + NameLen(Tail(labels))

WellFormedName(labels) ==
    /\ \A i \in 1..Len(labels) : Len(labels[i]) >= 1 /\ Len(labels[i]) <= 63
    /\ NameLen(labels) <= 255

WellFormed(p) ==
    /\ p.header.qdCount = Len(p.questions)
    /\ p.header.anCount = Len(p.answers)
    /\ \A i \in 1..Len(p.questions) : WellFormedName(p.questions[i].labels)

SameMessage(out, p) ==
    /\ out.ok
    /\ out.val.header = p.header
    /\ out.val.questions = p.questions
    /\ out.val.answers = p.answers

\* C6 as stated: decoding the encoding of any well-formed message, answers
\* included, gives the message back.
C6_RoundTripAnyMessage ==
    (cstep = "decoded" /\ WellFormed(packet)) => SameMessage(ret.out, packet)

\* C6 amended: decoding the encoding of a well-formed message without answers
\* (toBinary writes the header and the questions only) gives back the same
\* header fields, the same questions in the same order and no answers.
C6_RoundTripQuestionsOnly ==
    (cstep = "decoded" /\ WellFormed(packet) /\ packet.answers = <<>>)
        => SameMessage(ret.out, packet)

C6_Witness ==
    /\ cstep = "decoded"
    /\ WellFormed(packet)
    /\ packet.answers = <<>>
    /\ Len(packet.questions) = 2
    /\ packet.questions[1].labels = <<LabelRaw, LabelA>>
    /\ packet.questions[2].labels = <<Label63>>
    /\ packet.questions[1].qtype # packet.questions[2].qtype
    /\ SameMessage(ret.out, packet)

\* the first byte the name starting at pos makes readLabels treat as a
\* compression pointer, or -1: literal labels are skipped by their length
RECURSIVE PointerAt(_, _)
PointerAt(buf, pos) ==
    IF pos >= Len(buf) THEN -1
    ELSE IF buf[pos + 1] = 0 THEN -1
    ELSE IF buf[pos + 1] >= 64 THEN pos
    ELSE PointerAt(buf, pos + 1 + buf[pos + 1])

\* a length byte whose top two bits are 11, followed by its second byte
IsPointer(buf, pos) == pos + 2 <= Len(buf) /\ buf[pos + 1] >= 192

PointerOffset(buf, pos) == (buf[pos + 1] % 64) * 256 + buf[pos + 2]

\* an uncompressed name that decodes, wholly before position limit
PlainNameBefore(buf, pos, limit) ==
    /\ pos < limit
    /\ PointerAt(buf, pos) = -1
    /\ readLabels(buf, pos).ok
    /\ readLabels(buf, pos).pos <= limit

\* C7: readLabels started on a compression pointer to an earlier valid name
\* returns the labels of the name at the pointer's offset.
C7_PointerYieldsTargetName ==
    (/\ cstep = "labels"
     /\ IsPointer(bin, ret.start)
     /\ PlainNameBefore(bin, PointerOffset(bin, ret.start), ret.start))
        => (/\ ret.out.ok
            /\ ret.out.val = readLabels(bin, PointerOffset(bin, ret.start)).val)

\* C8: when readLabels returns after a compression pointer, the reader is
\* right after the pointer's two bytes.
C8_CursorAfterPointer ==
    (cstep = "labels" /\ ret.out.ok /\ PointerAt(bin, ret.start) >= 0)
        => ret.out.pos = PointerAt(bin, ret.start) + 2

\* a literal label and then a pointer were handled, and the call made for the
\* pointer consumed a whole label and its terminator beyond the pointer
C8_Witness ==
    /\ cstep = "labels"
    /\ ret.out.ok
    /\ PointerAt(bin, ret.start) > ret.start
    /\ IsPointer(bin, PointerAt(bin, ret.start))
    /\ ret.out.val # <<>>
    /\ ret.out.pos + 3 <= Len(bin)

(***************************************************************************)
(* The selection on its own: get_public_key holds a non-empty list of      *)
(* bincerts and picks one.                                                 *)
(***************************************************************************)
InitSelect ==
    /\ CodecIdle
    /\ pc = "CertReceived"
    /\ args = DefaultArgs
    /\ now \in Clock
    /\ certQuery = <<CertQueryMessage>>
    /\ certs \in SeqsUpTo(SelectBlobs, MaxCerts) \ {<<>>}
    /\ certificate = <<>> /\ provider_pk = <<>> /\ magic_query = <<>>
    /\ keypair = <<>> /\ nmkey = <<>> /\ nonce = <<>> /\ sent = <<>>
    /\ response = <<>> /\ decoded_answer = <<>> /\ retval = <<>>
    /\ err = <<>>
    /\ trace = <<"send_cert_query", "recv_cert_response">>
    /\ NoCalls

NextSelect == SelectCertificate

SpecSelect == InitSelect /\ [][NextSelect]_vars

(***************************************************************************)
(* Claims about the selection of the certificate.                          *)
(***************************************************************************)
\* the candidates of the list that are not expired at time t
ValidAt(bincerts, t) ==
    {i \in 1..Len(bincerts) : ~Expired(Certificate(bincerts[i]), t)}

Orderings(bincerts) ==
    {[i \in 1..Len(bincerts) |-> bincerts[f[i]]] : f \in Permutations(1..Len(bincerts))}

\* C3 as stated: when at least one candidate is not expired, the selected
\* certificate is not expired, its serial is the greatest serial of the
\* candidates that are not expired, and every ordering of the candidates
\* selects the same certificate.
C3_SelectsHighestValidSerial ==
    (certificate # <<>> /\ ValidAt(certs, now) # {})
        => /\ ~Expired(certificate[1], now)
           /\ \A i \in ValidAt(certs, now) : certs[i].serial <= certificate[1].serial
           /\ \A o \in Orderings(certs) : MaxCertificate(o, now) = certificate[1]

\* C4 as stated: the selection fails with "Certificate expired." exactly
\* when every candidate is expired.
C4_ExpiredErrorIffAllExpired ==
    certificate # <<>>
        => ((pc = "Failed" /\ err = <<CertificateExpired>>) <=> ValidAt(certs, now) = {})

Happened(name) == \E i \in 1..Len(trace) : trace[i] = name

\* every occurrence of step b in the trace has an occurrence of step a before it
Before(a, b) ==
    \A j \in 1..Len(trace) : trace[j] = b => \E i \in 1..(j - 1) : trace[i] = a

\* C1: once the magic of a received response has been checked and its first
\* eight bytes are not the response magic, query() has failed with "Invalid
\* magic query received.", decode_message was never invoked and nothing was
\* decrypted or returned; and in every run the magic check precedes the
\* nonce check, which precedes decode_message.
C1_MagicCheckedFirst ==
    /\ Before("recv_response", "check_magic")
    /\ Before("check_magic", "check_nonce")
    /\ Before("check_nonce", "decode_message")
    /\ (Happened("check_magic") /\ resp_magic_query(response[1]) # ResponseMagic)
         => /\ pc = "Failed"
            /\ err = <<DnscryptException("Invalid magic query received.")>>
            /\ ~Happened("check_nonce") /\ ~Happened("decode_message")
            /\ decoded_answer = <<>> /\ retval = <<>>

\* a response with a wrong magic, the right nonce echo and a ciphertext that
\* would open under the shared key was rejected
C1_Witness ==
    /\ pc = "Failed" /\ Happened("check_magic")
    /\ resp_magic_query(response[1]) = CertMagic
    /\ resp_client_nonce(response[1]) = nonce[1]
    /\ openedAnswer.ok
    /\ err = <<DnscryptException("Invalid magic query received.")>>

\* C2: once the nonce echo of a response with the right magic has been
\* checked and bytes 8..20 differ from the nonce sent, query() has failed
\* with "Invalid nonce received.", whatever the ciphertext and the server's
\* half are, and nothing was decrypted or returned.
C2_NonceEchoChecked ==
    (Happened("check_nonce") /\ resp_client_nonce(response[1]) # nonce[1])
        => /\ resp_magic_query(response[1]) = ResponseMagic
           /\ sent[1].nonce = nonce[1]
           /\ pc = "Failed"
           /\ err = <<DnscryptException("Invalid nonce received.")>>
           /\ ~Happened("decode_message")
           /\ decoded_answer = <<>> /\ retval = <<>>

\* a response with the right magic, another nonce echo and a ciphertext that
\* opens under the shared key with the echoed nonce was rejected
C2_Witness ==
    /\ pc = "Failed" /\ Happened("check_nonce")
    /\ resp_client_nonce(response[1]) = OtherNonce
    /\ openedAnswer.ok
    /\ err = <<DnscryptException("Invalid nonce received.")>>

\* C9 as stated: when the certificate response holds no certificate marker,
\* query() fails with "No certificate received.", which is not the error of
\* an expired certificate.
C9_NoCertificateError ==
    (Happened("recv_cert_response") /\ certs = <<>>)
        => /\ pc = "Failed"
           /\ err = <<DnscryptException("No certificate received.")>>
           /\ err # <<CertificateExpired>>

QueryPrefix ==
    <<"send_cert_query", "recv_cert_response", "select_certificate",
      "crypto_sign_open", "generate_keypair", "create_nmkey", "send_query">>

\* C10: an encrypted query was sent only after the certificate response was
\* received, a certificate of it that is not expired was selected and its
\* signature opened with the provider key, in that order; the shared key is
\* the one computed from the public key inside that certificate and the
\* local secret key; and when the signature of the selected certificate does
\* not verify, query() fails with the primitive's error, without a keypair,
\* a shared key or a datagram.
C10_StepOrdering ==
    /\ sent # <<>>
         => /\ SubSeq(trace, 1, Len(QueryPrefix)) = QueryPrefix
            /\ certificate # <<>>
            /\ \E i \in 1..Len(certs) : certs[i] = certificate[1].bincert
            /\ ~Expired(certificate[1], now)
            /\ certificate[1].bincert.signed_by = ProviderKey
    /\ nmkey # <<>>
         => /\ Before("crypto_sign_open", "create_nmkey")
            /\ certificate[1].bincert.signed_by = ProviderKey
            /\ provider_pk[1].pk = certificate[1].bincert.pk
            /\ nmkey[1] = crypto_box_beforenm(certificate[1].bincert.pk, keypair[1].sk).val
    /\ (Happened("crypto_sign_open") /\ certificate[1].bincert.signed_by # ProviderKey)
         => /\ pc = "Failed"
            /\ err = <<[type |-> "BadSignature", msg |-> ""]>>
            /\ keypair = <<>> /\ nmkey = <<>> /\ sent = <<>>

\* the query was sent after a response carrying a forged certificate next to
\* the genuine one
C10_Witness ==
    /\ pc = "QuerySent" /\ sent # <<>>
    /\ Len(certs) >= 2
    /\ \E i \in 1..Len(certs) : certs[i].signed_by = OtherKey
    /\ certificate[1].bincert.signed_by = ProviderKey

AllSteps ==
    QueryPrefix \o <<"recv_response", "check_magic", "check_nonce", "decode_message", "return">>

\* C11: query() has returned a value only when every step of the exchange
\* was taken, in order, and succeeded: the selected certificate was not
\* expired and its signature opened with the provider key, the response
\* magic and the nonce echo matched and the box opened under the shared key;
\* the value is the opened plaintext or the packet decoded from it.  A failed
\* invocation holds an exception and no value, and no invocation holds both.
C11_ReturnsOnlyWhenDone ==
    /\ retval # <<>>
         => /\ pc = "Done" /\ err = <<>> /\ trace = AllSteps
            /\ ~Expired(certificate[1], now)
            /\ certificate[1].bincert.signed_by = ProviderKey
            /\ resp_magic_query(response[1]) = ResponseMagic
            /\ resp_client_nonce(response[1]) = nonce[1]
            /\ crypto_box_open_afternm(resp_answer(response[1]),
                                       resp_client_nonce(response[1])
                                           \o resp_server_nonce(response[1]),
                                       nmkey[1]).ok
            /\ decoded_answer = <<response[1].answer[1].msg>>
            /\ IF args.return_packet
               THEN fromBinary(decoded_answer[1]).ok
                    /\ retval = <<fromBinary(decoded_answer[1]).val>>
               ELSE retval = decoded_answer
    /\ pc = "Done" => retval # <<>>
    /\ pc = "Failed" => (err # <<>> /\ retval = <<>>)
    /\ err # <<>> => pc = "Failed"

\* a packet was returned from an exchange whose certificate response also
\* carried a forged certificate
C11_Witness ==
    /\ pc = "Done" /\ args.return_packet /\ retval # <<>>
    /\ retval[1].answers = << <<10, 0, 0, 1>> >>
    /\ \E i \in 1..Len(certs) : certs[i].signed_by = OtherKey

(***************************************************************************)
(* What is present in an emitted DNS message, read strictly: a name is a   *)
(* run of labels closed by a zero byte or a two-byte pointer, a question   *)
(* is a name and four bytes, a resource record is a name, ten bytes and    *)
(* rdlength bytes of data.  -1 stands for "no such item here".             *)
(***************************************************************************)
RECURSIVE NameEnd(_, _)
NameEnd(buf, pos) ==
    IF pos >= Len(buf) THEN -1
    ELSE IF buf[pos + 1] = 0 THEN pos + 1
    ELSE IF buf[pos + 1] >= 192 THEN (IF pos + 2 <= Len(buf) THEN pos + 2 ELSE -1)
    ELSE IF buf[pos + 1] >= 64 \/ pos + 1 + buf[pos + 1] > Len(buf) THEN -1
    ELSE NameEnd(buf, pos + 1 + buf[pos + 1])

FixedEnd(buf, pos, n) == IF pos = -1 \/ pos + n > Len(buf) THEN -1 ELSE pos + n

QuestionEnd(buf, pos) == FixedEnd(buf, NameEnd(buf, pos), 4)

RecordDataEnd(buf, pos) ==
    IF pos = -1 THEN -1 ELSE FixedEnd(buf, pos, UnpackH(buf, pos - 1))

RecordEnd(buf, pos) == RecordDataEnd(buf, FixedEnd(buf, NameEnd(buf, pos), 10))

\* the position after n questions starting at pos
RECURSIVE QuestionsEnd(_, _, _)
QuestionsEnd(buf, pos, n) ==
    IF n = 0 \/ pos = -1 THEN pos ELSE QuestionsEnd(buf, QuestionEnd(buf, pos), n - 1)

\* the number of resource records that follow one another from pos on
RECURSIVE CountRecords(_, _)
CountRecords(buf, pos) ==
    IF pos = -1 \/ RecordEnd(buf, pos) = -1 THEN 0
    ELSE 1 + CountRecords(buf, RecordEnd(buf, pos))

HeaderCountsMatch(msg) ==
    /\ Len(msg) >= 12
    /\ QuestionsEnd(msg, 12, UnpackH(msg, 5)) # -1
    /\ CountRecords(msg, QuestionsEnd(msg, 12, UnpackH(msg, 5)))
         = UnpackH(msg, 7) + UnpackH(msg, 9) + UnpackH(msg, 11)

\* C12 as stated: in the TXT query sent by get_public_key and in the
\* plaintext sealed by query(), the header's question count is the number of
\* questions present and its answer, authority and additional counts add up
\* to the number of resource records present.
C12_HeaderCountsMatch ==
    /\ certQuery # <<>> => HeaderCountsMatch(certQuery[1])
    /\ sent # <<>> => HeaderCountsMatch(sent[1].encoded_message.msg)

(***************************************************************************)
(* The certificate response byte by byte: get_public_key extracts the      *)
(* blobs with find_certificates and parses each with Certificate().        *)
(***************************************************************************)
Pack32(v) ==
    <<(v \div 16777216) % 256, (v \div 65536) % 256, (v \div 256) % 256, v % 256>>

SignatureBytes(signer) == Repeat(IF signer = ProviderKey THEN 1 ELSE 2, 64)

CertMagicBytes == <<113, 54, 102, 110, 118, 87, 106, 56>>      \* 'q6fnvWj8'

\* the 116 bytes of a certificate: signature, public key, magic query,
\* serial, valid_from, valid_until
BlobBytes(b) ==
    SignatureBytes(b.signed_by) \o Repeat(7, b.pk.len) \o CertMagicBytes
    \o Pack32(b.serial) \o Pack32(b.valid_from) \o Pack32(b.valid_until)

WireBlobs ==
    {Bincert(ProviderKey, ResolverPk, 2, Epoch + 1, Epoch + 2),
     Bincert(OtherKey, ResolverPk, 1, Epoch, Epoch + 1)}

\* how many bytes of the response follow a marker
PayloadLens == {0, 1, BlobLen - 4, BlobLen - 1, BlobLen, BlobLen + 1}

\* a marker followed by n bytes: those of a certificate, cut or with a byte
\* of something else after them
WireSegment(b, n) == CertMarker \o Slice(BlobBytes(b) \o <<120>>, 0, n)

CompleteSegments == {WireSegment(b, n) : b \in WireBlobs, n \in {BlobLen, BlobLen + 1}}

LastSegments == {<<>>} \cup {WireSegment(b, n) : b \in WireBlobs, n \in PayloadLens}

\* the responses recvfrom may return: complete certificates, then possibly
\* one that the end of the datagram cuts
WireResponses ==
    {prefix \o Flatten(segs) \o last : prefix \in {<<>>, <<120>>},
                                        segs \in SeqsUpTo(CompleteSegments, MaxMarkers - 1),
                                        last \in LastSegments}

InitFind ==
    /\ cstep = "wire" /\ packet = DnsPacket(DnsHeader) /\ ret = NoRet /\ reader = NoReader
    /\ bin \in WireResponses
    /\ pc = "CertFetchSent"
    /\ args = DefaultArgs
    /\ now = (Epoch + 1) * TicksPerSecond
    /\ certQuery = <<CertQueryMessage>>
    /\ certs = <<>> /\ certificate = <<>> /\ provider_pk = <<>> /\ magic_query = <<>>
    /\ keypair = <<>> /\ nmkey = <<>> /\ nonce = <<>> /\ sent = <<>>
    /\ response = <<>> /\ decoded_answer = <<>> /\ retval = <<>>
    /\ err = <<>>
    /\ trace = <<"send_cert_query">>
    /\ NoCalls

\* bincerts = find_certificates(response); if not bincerts: raise
FindCertificates ==
    /\ pc = "CertFetchSent" /\ cstep = "wire"
    /\ certs' = find_certificates(bin)
    /\ IF certs' = <<>>
       THEN Raise(QueryExcept(DnscryptException("No certificate received.")))
       ELSE pc' = "CertReceived" /\ err' = err
    /\ Step("recv_cert_response")
    /\ UNCHANGED <<certQuery, certificate, provider_pk, magic_query, exchVars>>

\* for bincert in bincerts: certificates.append(Certificate(bincert))
ParseCertificates ==
    /\ pc = "CertReceived" /\ cstep = "wire"
    /\ IF \A k \in 1..Len(certs) : CertificateOfBytes(certs[k]).ok
       THEN pc' = "CertParsed" /\ err' = err
       ELSE Raise(QueryExcept(Fail("ValueError", "").exc))
    /\ Step("parse_certificates")
    /\ UNCHANGED <<certVars, exchVars>>

NextFind == FindCertificates \/ ParseCertificates

SpecFind == InitFind /\ [][NextFind]_vars

\* C13 as stated: find_certificates returns one blob for every occurrence of
\* the marker, the bytes right after it, and every blob is exactly 116 bytes
\* long wherever the marker stands in the response.
C13_BlobsAreComplete ==
    Happened("recv_cert_response")
        => /\ Len(certs) = Cardinality(MatchEnds(bin))
           /\ \A k \in 1..Len(certs) :
                /\ Len(certs[k]) = BlobLen
                /\ \E e \in MatchEnds(bin) : certs[k] = SubSeq(bin, e + 1, e + BlobLen)

\* what the certificates of the selection stand for: a response made of
\* complete blobs yields exactly these blobs, and each parses to the fields
\* Certificate() gives
CompleteBlobsAgree ==
    \A b \in SelectBlobs \cup WireBlobs :
        /\ find_certificates(<<120>> \o CertMarker \o BlobBytes(b) \o CertMarker \o BlobBytes(b))
             = <<BlobBytes(b), BlobBytes(b)>>
        /\ CertificateOfBytes(BlobBytes(b)).ok
        /\ CertificateOfBytes(BlobBytes(b)).val.serial = Certificate(b).serial
        /\ CertificateOfBytes(BlobBytes(b)).val.cert_start = Certificate(b).cert_start
        /\ CertificateOfBytes(BlobBytes(b)).val.cert_end = Certificate(b).cert_end
        /\ CertificateOfBytes(BlobBytes(b)).val.magic_query = CertMagicBytes

(***************************************************************************)
(* fromBinary on messages as a resolver may send them: a header declaring  *)
(* some questions and answers, then pieces that are questions, answers,    *)
(* cut answers or stray bytes, the last byte possibly missing.             *)
(***************************************************************************)
QuestionChunks ==
    {<<0, 0, 1, 0, 1>>,                     \* the root name
     <<1, 97, 0, 0, 16, 0, 1>>,             \* the name "a"
     <<192, 12, 0, 1, 0, 1>>}               \* a pointer as name

AnswerChunks ==
    {<<192, 12, 0, 1, 0, 1, 0, 0, 0, 60, 0, 4, 10, 0, 0, 1>>,  \* rdlength 4, 4 bytes
     <<0, 0, 1, 0, 1, 0, 0, 0, 0, 0, 0>>,                      \* rdlength 0
     <<0, 0, 1, 0, 1, 0, 0, 0, 0, 0, 4, 9, 9>>}                \* rdlength 4, 2 bytes

StrayChunks == {<<97>>, <<5, 97>>}

Chunks == QuestionChunks \cup AnswerChunks \cup StrayChunks

MessageHeaders ==
    {[DnsHeader EXCEPT !.qdCount = q, !.anCount = a] : q \in 0..MaxCount, a \in 0..MaxCount}

RawMessages ==
    {Slice(HeaderToBinary(h) \o Flatten(body), 0, 12 + Len(Flatten(body)) - cut) :
        h \in MessageHeaders, body \in SeqsUpTo(Chunks, MaxChunks), cut \in {0, 1}}

InitDecode ==
    /\ SessionIdle
    /\ cstep = "message"
    /\ packet = DnsPacket(DnsHeader)
    /\ bin \in RawMessages
    /\ ret = NoRet /\ reader = NoReader

\* packet = DnsPacketConverter().fromBinary(bin)
DecodePacket ==
    /\ cstep = "message"
    /\ cstep' = "parsed"
    /\ ret' = [start |-> 0, out |-> fromBinary(bin)]
    /\ UNCHANGED <<packet, bin, reader>>
    /\ UNCHANGED sessVars

NextDecode == DecodePacket

SpecDecode == InitDecode /\ [][NextDecode]_vars

\* C14: when fromBinary has returned a packet, the packet holds as many
\* questions as the header's qdCount and as many answers as its anCount, the
\* header is the one of the first twelve bytes, and the reader stands within
\* the buffer, also when bytes are left over after the last record read.
C14_CountsAsDeclared ==
    (cstep = "parsed" /\ ret.out.ok)
        => /\ Len(bin) >= 12
           /\ ret.out.val.header.qdCount = UnpackH(bin, 5)
           /\ ret.out.val.header.anCount = UnpackH(bin, 7)
           /\ Len(ret.out.val.questions) = ret.out.val.header.qdCount
           /\ Len(ret.out.val.answers) = ret.out.val.header.anCount
           /\ ret.out.pos >= 12 /\ ret.out.pos <= Len(bin)

\* a message with one question and two answers was decoded and bytes were
\* left over
C14_Witness ==
    /\ cstep = "parsed" /\ ret.out.ok
    /\ Len(ret.out.val.questions) = 1 /\ Len(ret.out.val.answers) = 2
    /\ ret.out.pos < Len(bin)

\* C18 as stated: whatever the clock reads and whatever the random bytes
\* are, the nonce drawn by query() is 12 characters long, so that the nonce
\* handed to the sealing primitive is 24 long, and the frame sent carries
\* that 12-character nonce.
C18_NonceIsTwelveBytes ==
    /\ nonce # <<>> => /\ Len(nonce[1]) = 12
                       /\ Len(nonce[1] \o ZeroPad) = NonceLen
    /\ sent # <<>> => /\ sent[1].nonce = nonce[1]
                      /\ Len(sent[1].nonce) = 12

\* the part of C18 that holds: a frame that was sent is made of the
\* certificate's magic, the public key generated by this invocation, the
\* nonce drawn and the sealed message, in the order of line 354
SentFrameLayout ==
    sent # <<>> => /\ sent[1].magic_query = magic_query[1]
                   /\ sent[1].pk = keypair[1].pk
                   /\ sent[1].nonce = nonce[1]
                   /\ sent[1].encoded_message
                        = encode_message(QueryMessage(args.record_type), nonce[1], nmkey[1]).val

\* the literal labels of the name at pos that come before position stop
RECURSIVE LiteralLabels(_, _, _)
LiteralLabels(buf, pos, stop) ==
    IF pos >= stop THEN <<>>
    ELSE <<read(buf, pos + 1, buf[pos + 1]).val>>
             \o LiteralLabels(buf, pos + 1 + buf[pos + 1], stop)

\* C19 as stated: readLabels started on literal labels that are followed by
\* a compression pointer to an earlier uncompressed name returns the literal
\* labels followed by the labels of the name the pointer refers to.
C19_LiteralsThenPointedSuffix ==
    (/\ cstep = "labels"
     /\ PointerAt(bin, ret.start) > ret.start
     /\ IsPointer(bin, PointerAt(bin, ret.start))
     /\ PlainNameBefore(bin, PointerOffset(bin, PointerAt(bin, ret.start)), ret.start))
        => (/\ ret.out.ok
            /\ ret.out.val
                 = LiteralLabels(bin, ret.start, PointerAt(bin, ret.start))
                     \o readLabels(bin, PointerOffset(bin, PointerAt(bin, ret.start))).val)

\* what the decoder returns in that case, when it returns: the labels read
\* after the pointer and nothing of what was read before it
LiteralsBeforePointerDropped ==
    (/\ cstep = "labels" /\ ret.out.ok
     /\ PointerAt(bin, ret.start) > ret.start)
        => ret.out = readLabels(bin, PointerAt(bin, ret.start))

(***************************************************************************)
(* The lengths a message declares, walked without reading: a name is       *)
(* walked as readLabels classifies its bytes (a byte with one of the two   *)
(* top bits set starts a two-byte pointer); -1 stands for a length that    *)
(* reaches past the end of the buffer.                                     *)
(***************************************************************************)
RECURSIVE DeclaredNameEnd(_, _)
DeclaredNameEnd(buf, pos) ==
    IF pos = -1 \/ pos >= Len(buf) THEN -1
    ELSE IF buf[pos + 1] = 0 THEN pos + 1
    ELSE IF BitAnd(buf[pos + 1], compressionMask) # 0
         THEN (IF pos + 2 <= Len(buf) THEN pos + 2 ELSE -1)
    ELSE IF pos + 1 + buf[pos + 1] > Len(buf) THEN -1
    ELSE DeclaredNameEnd(buf, pos + 1 + buf[pos + 1])

\* the position after the type, class, ttl and rdlength of the record at pos
DeclaredFixedEnd(buf, pos) == FixedEnd(buf, DeclaredNameEnd(buf, pos), 10)

\* the position after n items (questions or records) starting at pos
RECURSIVE DeclaredEnd(_, _, _, _)
DeclaredEnd(buf, pos, n, isQuestion) ==
    IF n = 0 \/ pos = -1 THEN pos
    ELSE DeclaredEnd(buf,
                     IF isQuestion THEN FixedEnd(buf, DeclaredNameEnd(buf, pos), 4)
                     ELSE RecordDataEnd(buf, DeclaredFixedEnd(buf, pos)),
                     n - 1, isQuestion)

\* where the k-th answer of a message starts
AnswerStart(buf, k) ==
    DeclaredEnd(buf, DeclaredEnd(buf, 12, UnpackH(buf, 5), TRUE), k - 1, FALSE)

\* C16 as stated: when fromBinary has returned a packet, no label length and
\* no rdlength of the questions and answers it read reaches past the end of
\* the buffer, and every rdata returned is exactly rdlength bytes long.
C16_LengthsWithinBuffer ==
    (cstep = "parsed" /\ ret.out.ok)
        => /\ DeclaredEnd(bin, AnswerStart(bin, 1), UnpackH(bin, 7), FALSE) # -1
           /\ \A k \in 1..Len(ret.out.val.answers) :
                 /\ DeclaredFixedEnd(bin, AnswerStart(bin, k)) # -1
                 /\ Len(ret.out.val.answers[k])
                        = UnpackH(bin, DeclaredFixedEnd(bin, AnswerStart(bin, k)) - 1)

\* the part of C16 that the decoder does keep: a label length that reaches
\* past the end of the buffer makes fromBinary fail
LabelOverrunFails ==
    (cstep = "parsed" /\ ret.out.ok)
        => /\ DeclaredEnd(bin, 12, UnpackH(bin, 5), TRUE) # -1
           /\ \A k \in 1..Len(ret.out.val.answers) :
                 DeclaredFixedEnd(bin, AnswerStart(bin, k)) # -1

(***************************************************************************)
(* readLabels turn by turn.  reader.stack holds one frame per call under   *)
(* way, the innermost last: the labels collected so far and, for a call    *)
(* waiting in the compression branch, its oldPosition.  reader.result      *)
(* holds <<labels>> while a return value travels up the stack.             *)
(***************************************************************************)
Frame(labels, oldPosition) == [labels |-> labels, oldPosition |-> oldPosition]

Top(stack) == stack[Len(stack)]

Pop(stack) == SubSeq(stack, 1, Len(stack) - 1)

InitSteps ==
    /\ SessionIdle
    /\ cstep = "reading"
    /\ packet = DnsPacket(DnsHeader)
    /\ bin \in SeqsUpTo(RawBytes, MaxStepBufLen)
    /\ \E p \in 0..Len(bin) :
          /\ ret = [start |-> p, out |-> Raised("none", p)]
          /\ reader = [pos |-> p, stack |-> <<Frame(<<>>, -1)>>, result |-> <<>>,
                       maxDepth |-> 0]

\* an exception leaves every call under way
RaiseFromReader(u) ==
    /\ cstep' = "raised"
    /\ ret' = [ret EXCEPT !.out = u]
    /\ reader' = [reader EXCEPT !.pos = u.pos, !.stack = <<>>]

\* the innermost call returns labels with the reader at pos
ReturnLabels(labels, pos) ==
    IF Len(reader.stack) = 1
    THEN /\ cstep' = "labels"
         /\ ret' = [ret EXCEPT !.out = Returned(labels, pos)]
         /\ reader' = [reader EXCEPT !.pos = pos, !.stack = <<>>, !.result = <<>>]
    ELSE /\ reader' = [reader EXCEPT !.pos = pos, !.stack = Pop(@), !.result = <<labels>>]
         /\ UNCHANGED <<cstep, ret>>

\* the compression branch: the second byte is read and readLabels is called
EnterPointer(length, u2) ==
    IF ~u2.ok THEN RaiseFromReader(u2)
    ELSE /\ reader' =
              [reader EXCEPT
                 !.pos = recursionStart(BitAnd(length, 255 - compressionMask) * 256
                                            + u2.val[1], u2.pos),
                 !.stack = Append([@ EXCEPT ![Len(@)].oldPosition = u2.pos],
                                  Frame(<<>>, -1)),
                 !.maxDepth = IF Len(reader.stack) > @ THEN Len(reader.stack) ELSE @]
         /\ UNCHANGED <<cstep, ret>>

\* label = reader.read(length); labels.append(label)
TakeLabel(r) ==
    /\ reader' = [reader EXCEPT !.pos = r.pos,
                                !.stack[Len(reader.stack)].labels = Append(@, r.val)]
    /\ UNCHANGED <<cstep, ret>>

\* one turn of the while loop of the innermost call
ReadTurn ==
    /\ cstep = "reading" /\ reader.result = <<>>
    /\ Len(reader.stack) <= MaxStepBufLen + 1
    /\ LET u == unpack(bin, reader.pos, 1)
       IN  IF ~u.ok THEN RaiseFromReader(u)
           ELSE IF u.val[1] = 0 THEN ReturnLabels(Top(reader.stack).labels, u.pos)
           ELSE IF BitAnd(u.val[1], compressionMask) # 0
                THEN EnterPointer(u.val[1], unpack(bin, u.pos, 1))
                ELSE TakeLabel(read(bin, u.pos, u.val[1]))
    /\ UNCHANGED <<packet, bin>>
    /\ UNCHANGED sessVars

\* reader.seek(oldPosition); return result
Unwind ==
    /\ cstep = "reading" /\ reader.result # <<>>
    /\ ReturnLabels(reader.result[1], Top(reader.stack).oldPosition)
    /\ UNCHANGED <<packet, bin>>
    /\ UNCHANGED sessVars

NextSteps == ReadTurn \/ Unwind

\* a call that can take a turn takes it
SpecSteps == InitSteps /\ [][NextSteps]_vars /\ WF_vars(NextSteps)

ReadingDone == cstep \in {"labels", "raised"}

\* C15: readLabels, started at any position of any buffer, whatever its
\* pointers refer to, ends by returning or by raising; the calls nested
\* inside the first one are never more than half as many as the buffer has
\* bytes; and what it ends with is what readLabels gives for that buffer.
C15_ReadLabelsTerminates ==
    /\ [](2 * (Len(reader.stack) - 1) <= Len(bin) /\ 2 * reader.maxDepth <= Len(bin))
    /\ [](ReadingDone => /\ ret.out.ok = readLabels(bin, ret.start).ok
                         /\ ret.out.ok => ret.out = readLabels(bin, ret.start))
    /\ <>ReadingDone

\* a pointer that refers to itself, with another pointer right after it, was
\* read through to a return
C15_Witness ==
    /\ cstep = "labels" /\ reader.maxDepth >= 2
    /\ IsPointer(bin, ret.start) /\ PointerOffset(bin, ret.start) = ret.start

(***************************************************************************)
(* Several invocations of query() side by side, from generate_keypair      *)
(* (line 330) to decode_message (line 367).  Every name the function uses  *)
(* is a local of the invocation; the invocations have in common the clock, *)
(* the key generator and the resolver's certificate.                       *)
(***************************************************************************)
Invocations == 1..MaxCalls

\* the locals of an invocation for which get_public_key has returned
CallStart(record_type) ==
    [pc |-> "KeyRecovered", record_type |-> record_type,
     keypair |-> <<>>, nmkey |-> <<>>, nonce |-> <<>>,
     sealed |-> <<>>, opened |-> <<>>]

CallClock == Epoch * TicksPerSecond .. (Epoch + 1) * TicksPerSecond

InitCalls ==
    /\ CodecIdle
    /\ pc = "calls" /\ args = DefaultArgs
    /\ now \in CallClock
    /\ SessionFresh
    /\ calls \in [Invocations -> {CallStart(t) : t \in RecordTypes}]
    /\ drawn = 0

\* the other invocations and everything outside them stay as they are
OnlyCall(i, locals) ==
    /\ calls' = [calls EXCEPT ![i] = locals]
    /\ UNCHANGED <<codecVars, pc, args, now, certVars, exchVars, err, trace>>

\* (pk, sk) = generate_keypair()
CallGenerateKeypair(i) ==
    /\ calls[i].pc = "KeyRecovered"
    /\ drawn' = drawn + 1
    /\ OnlyCall(i, [calls[i] EXCEPT !.keypair = <<generate_keypair(drawn + 1)>>,
                                    !.pc = "KeypairGenerated"])

\* nmkey = create_nmkey(provider_pk[:32], sk)
CallCreateNmkey(i) ==
    /\ calls[i].pc = "KeypairGenerated"
    /\ \E resolver \in {ResolverPk, ShortPk} :
          OnlyCall(i, IF create_nmkey(resolver, calls[i].keypair[1].sk).ok
                      THEN [calls[i] EXCEPT
                              !.nmkey = <<create_nmkey(resolver, calls[i].keypair[1].sk).val>>,
                              !.pc = "NmkeyReady"]
                      ELSE [calls[i] EXCEPT !.pc = "Failed"])
    /\ drawn' = drawn

\* the locals after lines 335-354 with the nonce n
Sealed(locals, n) ==
    IF encode_message(QueryMessage(locals.record_type), n, locals.nmkey[1]).ok
    THEN [locals EXCEPT
            !.nonce = <<n>>,
            !.sealed = Append(@, encode_message(QueryMessage(locals.record_type), n,
                                                locals.nmkey[1]).val),
            !.pc = "QuerySent"]
    ELSE [locals EXCEPT !.nonce = <<n>>, !.pc = "Failed"]

\* the nonce is drawn, the message sealed and the frame sent
CallSendQuery(i) ==
    /\ calls[i].pc = "NmkeyReady"
    /\ \E random \in RandomTails : OnlyCall(i, Sealed(calls[i], MakeNonce(now, random)))
    /\ drawn' = drawn

\* the resolver's answer to the query of an invocation with these locals
AnswerFor(locals) ==
    <<[msg |-> ValidReply, nonce |-> locals.nonce[1] \o ServerNonce, key |-> locals.nmkey[1]]>>

\* the locals after lines 355-367 on a response with this client nonce and
\* this sealed answer
Opened(locals, resp_nonce, resp_answer_box) ==
    IF ~NonceOk(resp_nonce, locals.nonce[1]) THEN [locals EXCEPT !.pc = "Failed"]
    ELSE [locals EXCEPT
            !.opened = Append(@, [nonce |-> resp_nonce \o ServerNonce,
                                  key |-> locals.nmkey[1]]),
            !.pc = IF decode_message(resp_answer_box, resp_nonce \o ServerNonce,
                                     locals.nmkey[1]).ok
                   THEN "Decoded" ELSE "Failed"]

\* a response arrives: the answer to the query of one of the invocations,
\* this one or another
CallRecvResponse(i) ==
    /\ calls[i].pc = "QuerySent"
    /\ \E j \in Invocations :
          /\ calls[j].sealed # <<>>
          /\ OnlyCall(i, Opened(calls[i], calls[j].nonce[1], AnswerFor(calls[j])))
    /\ drawn' = drawn

\* the clock moves on while the invocations run
CallTick ==
    /\ pc = "calls"
    /\ now + 1 \in CallClock
    /\ now' = now + 1
    /\ UNCHANGED <<codecVars, pc, args, certVars, exchVars, err, trace, callVars>>

NextCalls ==
    \/ \E i \in Invocations :
          \/ CallGenerateKeypair(i) \/ CallCreateNmkey(i)
          \/ CallSendQuery(i) \/ CallRecvResponse(i)
    \/ CallTick

SpecCalls == InitCalls /\ [][NextCalls]_vars

\* the boxes sealed by all the invocations, each with its invocation
AllSealed ==
    UNION {{[call |-> i, box |-> calls[i].sealed[k]] : k \in 1..Len(calls[i].sealed)} :
              i \in Invocations}

\* C17: however the invocations interleave, no two of them hold the same
\* keypair or the same shared key; an invocation seals at most once, exactly
\* once when it has sent its query, under its own shared key, and opens at
\* most once, under that key; and two boxes sealed under the same key and
\* nonce are one and the same box of one invocation.
C17_KeysNeverShared ==
    /\ \A i, j \in Invocations :
          (i # j /\ calls[i].keypair # <<>> /\ calls[j].keypair # <<>>)
              => /\ calls[i].keypair[1].pk # calls[j].keypair[1].pk
                 /\ calls[i].keypair[1].sk # calls[j].keypair[1].sk
                 /\ (calls[i].nmkey # <<>> /\ calls[j].nmkey # <<>>)
                        => calls[i].nmkey[1] # calls[j].nmkey[1]
    /\ \A i \in Invocations :
          /\ Len(calls[i].sealed) <= 1 /\ Len(calls[i].opened) <= 1
          /\ calls[i].pc \in {"QuerySent", "Decoded"} => Len(calls[i].sealed) = 1
          /\ \A k \in 1..Len(calls[i].sealed) : calls[i].sealed[k].key = calls[i].nmkey[1]
          /\ \A k \in 1..Len(calls[i].opened) : calls[i].opened[k].key = calls[i].nmkey[1]
    /\ \A a, b \in AllSealed :
          (a.box.key = b.box.key /\ a.box.nonce = b.box.nonce) => a = b

\* two invocations drew the same nonce in the same second for two different
\* messages, and both opened their response
C17_Witness ==
    /\ calls[1].pc = "Decoded" /\ calls[2].pc = "Decoded"
    /\ calls[1].nonce = calls[2].nonce
    /\ calls[1].sealed[1].msg # calls[2].sealed[1].msg
    /\ drawn = MaxCalls

====
